---- MODULE Spec2Model ----
(***************************************************************************)
(* A model of mongo-firestore (src/src/mongo.py, and the builder methods   *)
(* of the older src/mongo.py): the expression compiler                     *)
(* `parse`, the aggregation pipeline of a MongoCollection handle, and the  *)
(* change-stream dispatch loop `_thread_change` started by on_snapshot.    *)
(***************************************************************************)
EXTENDS Integers, Sequences, FiniteSets, TLC

(***************************************************************************)
(* Bounds of the model.                                                    *)
(***************************************************************************)
\* calls made on the collection handle in one run
MaxCalls == 4
\* events one change stream yields in one run
MaxEvents == 2
\* subscriptions in the runs with several dispatch loops
NSubs == 2
\* writes made through the document reference in one run
MaxWrites == 2
\* operands of a combinator in the expressions given to parse
MaxOperands == 2

(***************************************************************************)
(* Python values of the expression language.  Every value is a record, so  *)
(* that values of different kinds can be compared:                         *)
(*   [atom |-> s]          a string or a number (the number 18 is "18")    *)
(*   [list |-> <<..>>]     a list                                          *)
(*   [tuple |-> <<..>>]    a tuple (what *args collects)                   *)
(*   [key |-> k, val |-> v]  a one-entry dict {k: v}                       *)
(*   [err |-> name]        an exception raised while computing the value   *)
(***************************************************************************)
Atom(s) == [atom |-> s]
List(items) == [list |-> items]
Tuple(items) == [tuple |-> items]
Dict(k, v) == [key |-> k, val |-> v]
Raised(name) == [err |-> name]

IsAtom(v) == DOMAIN v = {"atom"}
IsList(v) == DOMAIN v = {"list"}
IsTuple(v) == DOMAIN v = {"tuple"}
IsDict(v) == DOMAIN v = {"key", "val"}
IsRaised(v) == DOMAIN v = {"err"}

\* a sequence pattern [..] of match/case matches lists and tuples, not strings
IsSequence(v) == IsList(v) \/ IsTuple(v)
Items(v) == IF IsList(v) THEN v.list ELSE v.tuple

\* the literal pattern "tok" matches a value equal to the string
Is(v, tok) == IsAtom(v) /\ v.atom = tok

\* hash(v) succeeds: a dict key must be hashable, lists and dicts are not
RECURSIVE Hashable(_)
Hashable(v) ==
    IF IsAtom(v) THEN TRUE
    ELSE IF IsTuple(v) THEN \A i \in 1..Len(v.tuple) : Hashable(v.tuple[i])
    ELSE FALSE

\* {k: v}, where computing v or hashing k may raise
MkDict(k, v) ==
    IF IsRaised(v) THEN v
    ELSE IF ~Hashable(k) THEN Raised("TypeError")
    ELSE Dict(k, v)

\* [f(e) for e in expr], where an element may raise
MkList(items) ==
    IF \E i \in 1..Len(items) : IsRaised(items[i])
    THEN items[CHOOSE i \in 1..Len(items) :
                 /\ IsRaised(items[i])
                 /\ \A j \in 1..(i - 1) : ~IsRaised(items[j])]
    ELSE List(items)

\* the tags with $lt and $lte taken for one another
OpTag_Swapped(tok) ==
    CASE tok = "!=" -> "$ne"
      [] tok = "<" -> "$lte"
      [] tok = ">" -> "$gt"
      [] tok = "<=" -> "$lt"
      [] tok = ">=" -> "$gte"
      [] tok = "in" -> "$in"
      [] tok = "not-in" -> "$nin"
\* the operators without the case of "in"
WrappedOps_NoIn == {"!=", "<", ">", "<=", ">=", "not-in"}
\* the combinators without the case of "nor"
Combinators_NoNor == {"and", "or"}
\* "not" taken for a combinator as well
Combinators_WithNot == {"and", "nor", "or", "not"}

\* the operator tokens of the three-element cases and their tags
OpTag(tok) ==
    CASE tok = "!=" -> "$ne"
      [] tok = "<" -> "$lt"
      [] tok = ">" -> "$gt"
      [] tok = "<=" -> "$lte"
      [] tok = ">=" -> "$gte"
      [] tok = "in" -> "$in"
      [] tok = "not-in" -> "$nin"
WrappedOps == {"!=", "<", ">", "<=", ">=", "in", "not-in"}
Combinators == {"and", "nor", "or"}

\* parse(args): the cases are tried in the order of the source
RECURSIVE parse(_)
parse(args) ==
    IF ~IsSequence(args) THEN args
    ELSE LET xs == Items(args)
             n == Len(xs)
         IN  IF n = 2 /\ Is(xs[1], "not")
                 THEN MkDict(Atom("$not"), parse(xs[2]))
             ELSE IF n = 3 /\ Is(xs[2], "==")
                 THEN MkDict(xs[1], parse(xs[3]))
             ELSE IF n = 3 /\ IsAtom(xs[2]) /\ xs[2].atom \in WrappedOps
                 THEN MkDict(xs[1],
                             MkDict(Atom(OpTag(xs[2].atom)), parse(xs[3])))
             ELSE IF n >= 1 /\ IsAtom(xs[1]) /\ xs[1].atom \in Combinators
                 THEN MkDict(Atom("$" \o xs[1].atom),
                             MkList([i \in 1..(n - 1) |-> parse(xs[i + 1])]))
             ELSE args

(***************************************************************************)
(* The collection handle: its pipeline and the calls made on it.           *)
(***************************************************************************)
VARIABLES
    pipeline,   \* MongoCollection.pipeline: a sequence of stage documents
    calls       \* the calls made on the handle so far, in order: what each
                \* appended or passed to the driver, and how it ended

qvars == <<pipeline, calls>>

\* the stage documents of where / order_by / limit
MatchStage(args) == MkDict(Atom("$match"), parse(args))
SortStage(name, order) == MkDict(Atom("$sort"), MkDict(name, order))
LimitStage(num) == MkDict(Atom("$limit"), num)

\* the arguments where is called with in the model: where(*args)
ExprAge == List(<<Atom("age"), Atom(">="), Atom("18")>>)
ExprName == List(<<Atom("name"), Atom("=="), Atom("Bob")>>)
WhereArgs ==
    { <<List(<<Atom("and"), ExprAge, ExprName>>)>>,
      <<Atom("age"), Atom("<"), Atom("65")>>,
      <<List(<<List(<<Atom("age")>>), Atom("=="), Atom("18")>>)>> }

\* args = args[0] if len(args) == 1 else args
WhereExpr(args) == IF Len(args) = 1 THEN args[1] ELSE Tuple(args)

\* a call of the handle, as the log keeps it
Call(op, arg, out, ret) == [op |-> op, arg |-> arg, out |-> out, ret |-> ret]

\* self.pipeline.append(stage); return self -- or the exception of building
\* the stage, raised before anything is appended
AppendStage(op, stage) ==
    /\ Len(calls) < MaxCalls
    /\ IF IsRaised(stage)
       THEN /\ pipeline' = pipeline
            /\ calls' = Append(calls, Call(op, <<>>, stage.err, "raise"))
       ELSE /\ pipeline' = Append(pipeline, stage)
            /\ calls' = Append(calls, Call(op, <<stage>>, "ok", "self"))

where(args) == AppendStage("where", MatchStage(WhereExpr(args)))
order_by(name, order) == AppendStage("order_by", SortStage(name, order))
limit(num) == AppendStage("limit", LimitStage(num))

\* a reset that leaves the stages in place
_reset_skipped == pipeline' = pipeline

\* self.pipeline = []
_reset == pipeline' = <<>>

\* what the driver's collection.aggregate(pipeline) does with the call: it raises,
\* or returns a cursor over some number of documents
DriverOutcomes == {"raise", "empty", "docs"}

\* result = self.collection.aggregate(self.pipeline); self._reset(); return result
\* `after` is how the caller (get, to_dict, or nobody) goes on with the cursor
aggregateCall(op, d, after, ret) ==
    /\ Len(calls) < MaxCalls
    /\ IF d = "raise"
       THEN /\ pipeline' = pipeline
            /\ calls' = Append(calls, Call(op, pipeline, "driver_raise", "raise"))
       ELSE /\ _reset
            /\ calls' = Append(calls, Call(op, pipeline, after, ret))

aggregate(d) == aggregateCall("aggregate", d, "ok", "cursor")

\* return list(self.aggregate())
get(d) == aggregateCall("get", d, "ok", "list")

\* data.update({document.pop("_id", None), document}) builds a set holding a
\* dict: TypeError for the first document of the cursor
to_dict(d) ==
    IF d = "docs"
    THEN aggregateCall("to_dict", d, "TypeError", "raise")
    ELSE aggregateCall("to_dict", d, "ok", "dict")

(***************************************************************************)
(* Change events.  A raw event is a mapping (a function from field names   *)
(* to values) that holds some of the fields fullDocument, documentKey,     *)
(* operationType, ns, clusterTime, updateDescription.                      *)
(***************************************************************************)
\* {} : the empty mapping
EmptyMap == [k \in {} |-> 0]

\* MongoReference._docId: {"_id": self.docId}
DocIdFilter(docId) == "_id" :> docId

\* the docId of the document reference of the model
RefDocId == "k1"

Ns == [db |-> "test_database", coll |-> "test_collection"]
\* a bson Timestamp
ClusterTime == [time |-> 7, inc |-> 1]

EvInsert ==
    [fullDocument |-> [name |-> "Bob"], documentKey |-> DocIdFilter("k1"),
     operationType |-> "insert", ns |-> Ns, clusterTime |-> ClusterTime]
\* an update carries no fullDocument unless the stream asks for it
EvUpdate ==
    [documentKey |-> DocIdFilter("k1"), operationType |-> "update", ns |-> Ns,
     clusterTime |-> ClusterTime,
     updateDescription |-> [updatedFields |-> "name"]]
\* neither fullDocument nor clusterTime
EvDelete ==
    [documentKey |-> DocIdFilter("k2"), operationType |-> "delete", ns |-> Ns]
\* a replace whose document is the empty mapping
EvReplace ==
    [fullDocument |-> EmptyMap, documentKey |-> DocIdFilter("k1"),
     operationType |-> "replace", ns |-> Ns]
\* a drop of the collection: no documentKey
EvDrop == [operationType |-> "drop", ns |-> Ns, clusterTime |-> ClusterTime]
\* an invalidate: neither documentKey nor ns
EvInvalidate == [operationType |-> "invalidate", clusterTime |-> ClusterTime]

Events == {EvInsert, EvUpdate, EvDelete, EvReplace, EvDrop, EvInvalidate}

\* change.get(field, default)
Get(change, field, default) ==
    IF field \in DOMAIN change THEN change[field] ELSE default

\* the fields case 3 reads with change[...]
MetaFields == {"documentKey", "operationType", "ns"}
\* fullDocument read with change[...] as well
RaisesKeyError_Strict(change) ==
    ~((MetaFields \cup {"fullDocument"}) \subseteq DOMAIN change)

\* change[field] raises KeyError for one of them
RaisesKeyError(change) == ~(MetaFields \subseteq DOMAIN change)

\* fullDocument = [change.get("fullDocument", {})]
FullDocument(change) == <<Get(change, "fullDocument", EmptyMap)>>
\* changes, with the update description of the event added to it
Changes_WithUpdate(change) ==
    [f \in MetaFields \cup ({"updateDescription"} \cap DOMAIN change) |->
        change[f]]

\* changes = {"documentKey": .., "operationType": .., "ns": ..}
Changes(change) == [f \in MetaFields |-> change[f]]
\* read_time = change.get("clusterTime", {})
ReadTime(change) == Get(change, "clusterTime", EmptyMap)

\* the event without its document
RawArgs_Stripped(change) ==
    <<[f \in DOMAIN change \ {"fullDocument"} |-> change[f]]>>

\* the positional arguments of on_snapshot(change)
RawArgs(change) == <<change>>
\* the positional arguments of on_snapshot(fullDocument, changes, read_time)
NormalizedArgs(change) ==
    <<FullDocument(change), Changes(change), ReadTime(change)>>

(***************************************************************************)
(* Callbacks: functions of 0, 1, 2 and 3 declared parameters.  "None" is   *)
(* on_snapshot called without a callback.                                  *)
(***************************************************************************)
Callbacks == {"f0", "f1", "f2", "f3"}
\* on_snapshot.__code__.co_argcount
co_argcount(f) ==
    CASE f = "f0" -> 0 [] f = "f1" -> 1 [] f = "f2" -> 2 [] f = "f3" -> 3

(***************************************************************************)
(* Subscriptions.  Subscription s is one call of on_snapshot, the change   *)
(* stream it opens and the thread it starts.                               *)
(***************************************************************************)
AllSubs == 1..NSubs

VARIABLES
    cpc,        \* where the caller of on_snapshot is: "idle", "watched"
                \* (the stream is open), "returned"
    cret,       \* what on_snapshot returned: "None" or "stream"
    owner,      \* "collection" or "reference": whose on_snapshot it is
    cb,         \* the on_snapshot argument: a callback or "None"
    wpipe,      \* the pipeline given to collection.watch
    sstat,      \* the change stream: "unopened", "open", "closed", "error"
    yielded,    \* the events the stream has yielded to the loop, in order
    tpc,        \* the dispatch loop: "unstarted", "next" (at the for),
                \* "match" (holds an event), "calling" (in the callback),
                \* "done" (the loop ended), "dead" (an exception ended it)
    ctx,        \* what runs the loop: "thread", or "caller" (on_snapshot's)
    terr,       \* the exception that ended the loop
    delivered,  \* the invocations of the callback: who made each, with
                \* what arguments
    running     \* the events (by position in the stream) whose invocation
                \* has started and not returned

dvars == <<cpc, cret, owner, cb, wpipe, sstat, yielded, tpc, ctx, terr,
           delivered, running>>

\* the watch pipeline of MongoCollection.on_snapshot and of
\* MongoReference.on_snapshot
WatchPipeline(o) ==
    IF o = "collection" THEN <<>>
    ELSE <<[match |-> [documentKey |-> DocIdFilter(RefDocId)]]>>

\* the driver yields to a stream the events its $match stages accept
Accepts(pl, e) ==
    \A i \in 1..Len(pl) :
        /\ "documentKey" \in DOMAIN e
        /\ e.documentKey = pl[i].match.documentKey

\* change_stream = self.collection.watch(pipeline)
OnSnapshotWatch(s, o, f) ==
    /\ cpc[s] = "idle"
    /\ cpc' = [cpc EXCEPT ![s] = "watched"]
    /\ owner' = [owner EXCEPT ![s] = o]
    /\ cb' = [cb EXCEPT ![s] = f]
    /\ wpipe' = [wpipe EXCEPT ![s] = WatchPipeline(o)]
    /\ sstat' = [sstat EXCEPT ![s] = "open"]
    /\ UNCHANGED <<cret, yielded, tpc, ctx, terr, delivered, running>>

\* the loop run by the caller of on_snapshot itself (Thread.run for start)
StartThread_Inline(s) ==
    /\ tpc' = [tpc EXCEPT ![s] = "next"]
    /\ ctx' = [ctx EXCEPT ![s] = "caller"]
    /\ cpc' = [cpc EXCEPT ![s] = "running"]

\* Thread(target=_thread_change, args=(change_stream, on_snapshot)).start():
\* the loop runs on a new thread
StartThread(s) ==
    /\ tpc' = [tpc EXCEPT ![s] = "next"]
    /\ ctx' = [ctx EXCEPT ![s] = "thread"]
    /\ cpc' = [cpc EXCEPT ![s] = "returned"]

\* if on_snapshot: return Thread(..).start()    (start() returns None)
\* return change_stream
OnSnapshotReturn(s) ==
    /\ cpc[s] = "watched"
    /\ IF cb[s] # "None"
       THEN /\ StartThread(s)
            /\ cret' = [cret EXCEPT ![s] = "None"]
       ELSE /\ cpc' = [cpc EXCEPT ![s] = "returned"]
            /\ cret' = [cret EXCEPT ![s] = "stream"]
            /\ UNCHANGED <<tpc, ctx>>
    /\ UNCHANGED <<owner, cb, wpipe, sstat, yielded, terr, delivered, running>>

\* the loop is at `for change in change_stream` and may ask for an event
AtFor(s) == tpc[s] = "next"

\* for change in change_stream: the stream yields its next event
Pull(s, e) ==
    /\ AtFor(s)
    /\ sstat[s] = "open"
    /\ Len(yielded[s]) < MaxEvents
    /\ Accepts(wpipe[s], e)
    /\ yielded' = [yielded EXCEPT ![s] = Append(@, e)]
    /\ tpc' = [tpc EXCEPT ![s] = "match"]
    /\ UNCHANGED <<cpc, cret, owner, cb, wpipe, sstat, ctx, terr, delivered,
                   running>>

\* the stream is closed, from outside or by the server
CloseStream(s) ==
    /\ sstat[s] = "open"
    /\ sstat' = [sstat EXCEPT ![s] = "closed"]
    /\ UNCHANGED <<cpc, cret, owner, cb, wpipe, yielded, tpc, ctx, terr,
                   delivered, running>>

\* the stream fails: its next() raises
FailStream(s) ==
    /\ sstat[s] = "open"
    /\ sstat' = [sstat EXCEPT ![s] = "error"]
    /\ UNCHANGED <<cpc, cret, owner, cb, wpipe, yielded, tpc, ctx, terr,
                   delivered, running>>

\* for change in change_stream: StopIteration ends the loop and the thread
StreamEnd(s) ==
    /\ AtFor(s)
    /\ sstat[s] = "closed"
    /\ tpc' = [tpc EXCEPT ![s] = "done"]
    /\ UNCHANGED <<cpc, cret, owner, cb, wpipe, sstat, yielded, ctx, terr,
                   delivered, running>>

\* an exception leaves _thread_change: the thread ends with it
Die(s, e) ==
    /\ tpc' = [tpc EXCEPT ![s] = "dead"]
    /\ terr' = [terr EXCEPT ![s] = e]

\* the stream opened again after it failed, the loop going on
StreamRaise_Reconnect(s) ==
    /\ AtFor(s)
    /\ sstat[s] = "error"
    /\ sstat' = [sstat EXCEPT ![s] = "open"]
    /\ UNCHANGED <<cpc, cret, owner, cb, wpipe, yielded, tpc, ctx, terr,
                   delivered, running>>

\* for change in change_stream: the stream's exception ends the thread
StreamRaise(s) ==
    /\ AtFor(s)
    /\ sstat[s] = "error"
    /\ Die(s, "stream_error")
    /\ UNCHANGED <<cpc, cret, owner, cb, wpipe, sstat, yielded, ctx,
                   delivered, running>>

\* the callback started without waiting for it to return
Invoke_Detached(s, args) ==
    /\ delivered' = [delivered EXCEPT
                       ![s] = Append(@, [by |-> ctx[s], args |-> args])]
    /\ running' = [running EXCEPT ![s] = @ \cup {Len(yielded[s])}]
    /\ tpc' = [tpc EXCEPT ![s] = "next"]
    /\ terr' = terr

\* on_snapshot(..): the loop calls the callback and waits for it
Invoke(s, args) ==
    /\ delivered' = [delivered EXCEPT
                       ![s] = Append(@, [by |-> ctx[s], args |-> args])]
    /\ running' = [running EXCEPT ![s] = @ \cup {Len(yielded[s])}]
    /\ tpc' = [tpc EXCEPT ![s] = "calling"]
    /\ terr' = terr

\* match on_snapshot.__code__.co_argcount: case 1, case 3, case _
Dispatch(s) ==
    /\ tpc[s] = "match"
    /\ LET change == yielded[s][Len(yielded[s])]
           n == co_argcount(cb[s])
       IN  IF n = 1 THEN Invoke(s, RawArgs(change))
           ELSE IF n = 3
           THEN IF RaisesKeyError(change)
                THEN Die(s, "KeyError") /\ UNCHANGED <<delivered, running>>
                ELSE Invoke(s, NormalizedArgs(change))
           ELSE Die(s, "invalid_callback") /\ UNCHANGED <<delivered, running>>
    /\ UNCHANGED <<cpc, cret, owner, cb, wpipe, sstat, yielded, ctx>>

\* the invocation of the callback for the event at hand is over
Finished(s) == running' = [running EXCEPT ![s] = @ \ {Len(yielded[s])}]

\* the callback returns: back to the for
CallbackReturn(s) ==
    /\ tpc[s] = "calling"
    /\ Finished(s)
    /\ tpc' = [tpc EXCEPT ![s] = "next"]
    /\ UNCHANGED <<cpc, cret, owner, cb, wpipe, sstat, yielded, ctx, terr,
                   delivered>>

\* the exception of the callback caught, the loop going on
CallbackRaise_Caught(s) ==
    /\ tpc[s] = "calling"
    /\ Finished(s)
    /\ tpc' = [tpc EXCEPT ![s] = "next"]
    /\ terr' = [terr EXCEPT ![s] = "callback_raised"]
    /\ UNCHANGED <<cpc, cret, owner, cb, wpipe, sstat, yielded, ctx,
                   delivered>>

\* the callback raises: the exception leaves the loop
CallbackRaise(s) ==
    /\ tpc[s] = "calling"
    /\ Finished(s)
    /\ Die(s, "callback_raised")
    /\ UNCHANGED <<cpc, cret, owner, cb, wpipe, sstat, yielded, ctx,
                   delivered>>

(***************************************************************************)
(* The document reference: MongoReference, its docId and the writes it     *)
(* gives to the driver.  A payload is a dict: a function from its keys.    *)
(***************************************************************************)
VARIABLES
    parsed,     \* <<args, parse(args)>> once parse has been called
    race,       \* two threads on one handle, one in get and one in where
    ref         \* docId: MongoReference.docId ("none": no reference yet);
                \* ncalls: the calls of set / update / push made;
                \* writes: the calls given to the driver, in order

xvars == <<ref, parsed, race>>

\* the docIds a reference is asked for, and the one insert_one gives
DocIds == {"k1", "k2"}
AutoId == "auto"

\* the dicts given to set / update / push: with and without an "_id"
PayloadValues(k) == IF k = "_id" THEN {"k1", "k9"} ELSE {"Bob"}
Payloads ==
    UNION {[K -> {"k1", "k9", "Bob"}] : K \in SUBSET {"_id", "name", "tags"}}
ModelPayloads ==
    {d \in Payloads : \A k \in DOMAIN d : d[k] \in PayloadValues(k)}

\* MongoCollection.document(docId): if not docId: docId = self._autoId()
document(arg) ==
    /\ ref.docId = "none"
    /\ ref' = [ref EXCEPT !.docId = IF arg = "None" THEN AutoId ELSE arg]
    /\ UNCHANGED <<parsed, race>>

\* MongoReference._docId: {"_id": self.docId}
_docId == DocIdFilter(ref.docId)

\* a clean that leaves the dict as it is
_clean_nothing(data) == data

\* MongoReference._clean: data.pop("_id", None); return data
_clean(data) == [k \in DOMAIN data \ {"_id"} |-> data[k]]

\* a call of the driver: collection.<method>(filter, doc, upsert=..)
Write(method, filter, doc, upsert, given) ==
    [method |-> method, filter |-> filter, doc |-> doc, upsert |-> upsert,
     given |-> given]

\* the reference gives one call to the driver
Issue(w) ==
    /\ ref.docId # "none"
    /\ ref.ncalls < MaxWrites
    /\ ref' = [ref EXCEPT !.ncalls = @ + 1, !.writes = Append(@, w)]
    /\ UNCHANGED <<parsed, race>>

\* self.collection.replace_one(self._docId(), data, upsert=True)
set(data) ==
    Issue(Write("replace_one", _docId, _clean(data), TRUE, data))

\* self.collection.update_one(self._docId(), {"$set": data}, upsert=True)
update(data) ==
    Issue(Write("update_one", _docId, "$set" :> _clean(data), TRUE, data))

\* self.collection.update_one(self._docId(), {"$push": data}, upsert=True)
push(data) ==
    Issue(Write("update_one", _docId, "$push" :> _clean(data), TRUE, data))

(***************************************************************************)
(* The expressions parse is called with.                                   *)
(***************************************************************************)
\* the sequences of at most n elements of S
SeqUpTo(S, n) == UNION {[1..k -> S] : k \in 0..n}

\* the operator tokens of a comparison
OpTokens == {"==", "!=", "<", ">", "<=", ">=", "in", "not-in"}

\* field names, hashable: strings (also those that are tokens) and a tuple
FieldNames ==
    {Atom("age"), Atom("and"), Atom("not"),
     Tuple(<<Atom("a"), Atom("b")>>)}
\* a field that is a list
ListField == List(<<Atom("age")>>)

\* literal values: a number, and sequences of strings and numbers, some of
\* which have the shape of a node
LiteralValues ==
    {Atom("18"), List(<<>>), List(<<Atom("1"), Atom("2")>>),
     List(<<Atom("not"), Atom("draft")>>),
     List(<<Atom("a"), Atom("in"), Atom("b")>>),
     List(<<Atom("and"), Atom("or")>>),
     List(<<Atom("a"), Atom("b"), Atom("c"), Atom("d")>>)}

\* [f, op, v]
Comparisons ==
    {List(<<f, Atom(op), v>>) :
        f \in FieldNames, op \in OpTokens, v \in LiteralValues}
\* [f, op, v] with a list for f, alone and as the value of a comparison
ListFieldComparisons ==
    LET bad == {List(<<ListField, Atom(op), Atom("18")>>) : op \in OpTokens}
    IN  bad \cup {List(<<Atom("age"), Atom("=="), b>>) : b \in bad}

\* the operands of not and of the combinators: literals and nodes
Operands ==
    {Atom("x"), Atom("=="), Atom("in"), ExprAge,
     List(<<Atom("not"), ExprName>>),
     List(<<ListField, Atom("=="), Atom("18")>>)}
\* [c, e1, .., en]
Combinations ==
    {List(<<Atom(c)>> \o es) :
        c \in {"and", "or", "nor"}, es \in SeqUpTo(Operands, MaxOperands)}
\* ["not", e]
Negations == {List(<<Atom("not"), e>>) : e \in Operands}

\* inputs of no known shape: literals, a mapping, short and long lists
OtherShapes ==
    {Atom("age"), Atom("and"), Atom("not"), Atom("=="),
     Dict(Atom("age"), Atom("18")),
     List(<<>>), Tuple(<<>>),
     List(<<Atom("age")>>), List(<<Atom("not")>>), List(<<Atom("==")>>),
     List(<<Atom("age"), Atom("18")>>), List(<<Atom("=="), Atom("18")>>),
     List(<<Atom("age"), Atom("is"), Atom("18")>>),
     List(<<Atom("not"), Atom("a"), Atom("b")>>),
     List(<<Atom("=="), Atom("a"), Atom("b")>>),
     List(<<Atom("age"), Atom("=="), Atom("18"), Atom("x")>>),
     List(<<Atom("not"), Atom("a"), Atom("b"), Atom("c")>>),
     List(<<ExprAge, ExprName>>)}

ParseInputs ==
    Comparisons \cup ListFieldComparisons \cup Combinations \cup Negations
        \cup OtherShapes

\* a call parse(args)
Parse(args) ==
    /\ parsed = <<>>
    /\ parsed' = <<args, parse(args)>>
    /\ UNCHANGED <<ref, race>>

(***************************************************************************)
(* Two threads on one handle, one in get() and one in where(e).  A list is *)
(* an object: self.pipeline names the current list, and a thread that has  *)
(* loaded self.pipeline keeps that list when _reset binds a new one.       *)
(*   race.gpc     where the thread in get is: start, called, done, raised  *)
(*   race.wpc     where the thread in where is: start, loaded, done, raised*)
(*   race.held    the list the thread in where has loaded: none, current   *)
(*                (the list self.pipeline names), old (the one before the  *)
(*                reset)                                                   *)
(*   race.arg     the arguments of where                                   *)
(*   race.passed  the stages the driver read from the list given to it     *)
(*   race.old     the stages of the list self.pipeline named before reset  *)
(*   race.trace   the steps taken, in order                                *)
(* `pipeline` holds the stages of the list self.pipeline names.            *)
(***************************************************************************)
\* stages appended by one caller before the two threads start
RaceSetup ==
    /\ race.gpc = "start"
    /\ race.wpc = "start"
    /\ \/ order_by(Atom("age"), Atom("-1"))
       \/ limit(Atom("10"))
    /\ UNCHANGED <<ref, parsed, race>>

\* where, up to the load of self.pipeline.append: the list is loaded before
\* the argument {"$match": parse(args)} is computed
where_load(args) ==
    /\ race.wpc = "start"
    /\ race' = [race EXCEPT !.wpc = "loaded", !.held = "current",
                            !.arg = args, !.trace = Append(@, "load")]
    /\ UNCHANGED <<pipeline, calls, ref, parsed>>

\* an append that looks up self.pipeline again
where_append_reload ==
    /\ race.wpc = "loaded"
    /\ LET stage == MatchStage(WhereExpr(race.arg))
       IN  IF IsRaised(stage)
           THEN /\ race' = [race EXCEPT !.wpc = "raised"]
                /\ pipeline' = pipeline
           ELSE /\ pipeline' = Append(pipeline, stage)
                /\ race' = [race EXCEPT !.wpc = "done",
                                        !.trace = Append(@, "append")]
    /\ UNCHANGED <<calls, ref, parsed>>

\* where, from there: parse(args), which may raise, and the append to the
\* list that was loaded
where_append ==
    /\ race.wpc = "loaded"
    /\ LET stage == MatchStage(WhereExpr(race.arg))
       IN  IF IsRaised(stage)
           THEN /\ race' = [race EXCEPT !.wpc = "raised"]
                /\ pipeline' = pipeline
           ELSE IF race.held = "current"
           THEN /\ pipeline' = Append(pipeline, stage)
                /\ race' = [race EXCEPT !.wpc = "done",
                                        !.trace = Append(@, "append")]
           ELSE /\ pipeline' = pipeline
                /\ race' = [race EXCEPT !.wpc = "done",
                                        !.old = Append(@, stage),
                                        !.trace = Append(@, "append")]
    /\ UNCHANGED <<calls, ref, parsed>>

\* aggregate, up to the driver's reading of the list given to it:
\* result = self.collection.aggregate(self.pipeline)
aggregate_call(d) ==
    /\ race.gpc = "start"
    /\ IF d = "raise"
       THEN race' = [race EXCEPT !.gpc = "raised", !.trace = Append(@, "call")]
       ELSE race' = [race EXCEPT !.gpc = "called", !.passed = pipeline,
                                 !.trace = Append(@, "call")]
    /\ UNCHANGED <<pipeline, calls, ref, parsed>>

\* aggregate, from there: self._reset() binds a new list, and get returns
\* list(result)
aggregate_reset ==
    /\ race.gpc = "called"
    /\ _reset
    /\ race' = [race EXCEPT !.gpc = "done", !.old = pipeline,
                            !.held = IF @ = "current" THEN "old" ELSE @,
                            !.trace = Append(@, "reset")]
    /\ UNCHANGED <<calls, ref, parsed>>
(***************************************************************************)
(* The state after construction, and the specifications.                   *)
(***************************************************************************)
vars == <<pipeline, calls, cpc, cret, owner, cb, wpipe, sstat, yielded, tpc,
          ctx, terr, delivered, running, ref, parsed, race>>

Init ==
    /\ pipeline = <<>>
    /\ calls = <<>>
    /\ cpc = [s \in AllSubs |-> "idle"]
    /\ cret = [s \in AllSubs |-> "none"]
    /\ owner = [s \in AllSubs |-> "none"]
    /\ cb = [s \in AllSubs |-> "none"]
    /\ wpipe = [s \in AllSubs |-> <<>>]
    /\ sstat = [s \in AllSubs |-> "unopened"]
    /\ yielded = [s \in AllSubs |-> <<>>]
    /\ tpc = [s \in AllSubs |-> "unstarted"]
    /\ ctx = [s \in AllSubs |-> "none"]
    /\ terr = [s \in AllSubs |-> "none"]
    /\ delivered = [s \in AllSubs |-> <<>>]
    /\ running = [s \in AllSubs |-> {}]
    /\ ref = [docId |-> "none", ncalls |-> 0, writes |-> <<>>]
    /\ parsed = <<>>
    /\ race = [gpc |-> "start", wpc |-> "start", held |-> "none", arg |-> <<>>,
               passed |-> <<>>, old |-> <<>>, trace |-> <<>>]

\* sequential calls on one collection handle
Where == \E a \in WhereArgs : where(a) /\ UNCHANGED <<dvars, xvars>>
OrderBy == order_by(Atom("age"), Atom("-1")) /\ UNCHANGED <<dvars, xvars>>
Limit == limit(Atom("10")) /\ UNCHANGED <<dvars, xvars>>
GetDocs == \E d \in DriverOutcomes : get(d) /\ UNCHANGED <<dvars, xvars>>
Aggregate == \E d \in DriverOutcomes : aggregate(d) /\ UNCHANGED <<dvars, xvars>>
ToDict == \E d \in DriverOutcomes : to_dict(d) /\ UNCHANGED <<dvars, xvars>>

NextPipeline ==
    \/ Where
    \/ OrderBy
    \/ Limit
    \/ GetDocs
    \/ Aggregate
    \/ ToDict

SpecPipeline == Init /\ [][NextPipeline]_vars

\* one subscription, of a collection or of a document reference, with any
\* callback and any events
Register ==
    \E o \in {"collection", "reference"}, f \in Callbacks \cup {"None"} :
        OnSnapshotWatch(1, o, f) /\ UNCHANGED <<qvars, xvars>>
Return == OnSnapshotReturn(1) /\ UNCHANGED <<qvars, xvars>>
Yield == \E e \in Events : Pull(1, e) /\ UNCHANGED <<qvars, xvars>>
Close == CloseStream(1) /\ UNCHANGED <<qvars, xvars>>
Fail == FailStream(1) /\ UNCHANGED <<qvars, xvars>>
Exhausted == StreamEnd(1) /\ UNCHANGED <<qvars, xvars>>
Broken == StreamRaise(1) /\ UNCHANGED <<qvars, xvars>>
Match == Dispatch(1) /\ UNCHANGED <<qvars, xvars>>
Returns == CallbackReturn(1) /\ UNCHANGED <<qvars, xvars>>
Raises == CallbackRaise(1) /\ UNCHANGED <<qvars, xvars>>

NextDispatch ==
    \/ Register
    \/ Return
    \/ Yield
    \/ Close
    \/ Fail
    \/ Exhausted
    \/ Broken
    \/ Match
    \/ Returns
    \/ Raises

SpecDispatch == Init /\ [][NextDispatch]_vars

\* the caller of on_snapshot runs: a call that can return does return.  Nothing
\* is assumed of the stream, which may never yield an event.
SpecDispatchFair == SpecDispatch /\ WF_vars(Return)

\* the thread runs: a step of the loop that can be taken is taken, and an
\* invocation of the callback comes to its end.  Nothing is assumed of the
\* stream: it may stay open and silent for ever.
SpecDispatchLive ==
    /\ SpecDispatch
    /\ WF_vars(Return)
    /\ WF_vars(Exhausted)
    /\ WF_vars(Broken)
    /\ WF_vars(Match)
    /\ WF_vars(Returns)

\* one document reference and the writes made through it
Document ==
    \E k \in DocIds \cup {"None"} : document(k) /\ UNCHANGED <<qvars, dvars>>
Set == \E d \in ModelPayloads : set(d) /\ UNCHANGED <<qvars, dvars>>
Update == \E d \in ModelPayloads : update(d) /\ UNCHANGED <<qvars, dvars>>
Push == \E d \in ModelPayloads : push(d) /\ UNCHANGED <<qvars, dvars>>

NextReference ==
    \/ Document
    \/ Set
    \/ Update
    \/ Push

SpecReference == Init /\ [][NextReference]_vars

\* calls of parse
ParseAny == \E x \in ParseInputs : Parse(x) /\ UNCHANGED <<qvars, dvars>>

NextParse == ParseAny

SpecParse == Init /\ [][NextParse]_vars

(***************************************************************************)
(* The builder methods of the older module, src/mongo.py, in a chained     *)
(* call h.m1(..).m2(..)...: each method is called on what the one before   *)
(* it returned.                                                            *)
(***************************************************************************)
\* what the next method of the chain is called on
Receiver == IF calls = <<>> THEN "self" ELSE calls[Len(calls)].ret
\* the chain goes on while the last call returned to its caller
ChainOpen == Receiver \in {"self", "None"}

\* self.pipeline.append(stage), with no return statement
AppendStage_NoReturn(op, stage) ==
    /\ Len(calls) < MaxCalls
    /\ pipeline' = Append(pipeline, stage)
    /\ calls' = Append(calls, Call(op, <<stage>>, "ok", "None"))

\* the where of src/mongo.py: append the $match stage; return self
legacy_where(args) == AppendStage("where", MatchStage(WhereExpr(args)))
\* the order_by of src/mongo.py
legacy_order_by(name, order) ==
    AppendStage_NoReturn("order_by", SortStage(name, order))
\* the limit of src/mongo.py
legacy_limit(num) == AppendStage_NoReturn("limit", LimitStage(num))
\* the get of src/mongo.py: aggregate, reset, list(result)
legacy_get(d) == aggregateCall("get", d, "ok", "list")

\* None.m(..): 'NoneType' object has no attribute m
AttributeError(op) ==
    /\ Len(calls) < MaxCalls
    /\ pipeline' = pipeline
    /\ calls' = Append(calls, Call(op, <<>>, "AttributeError", "raise"))

ChainWhere ==
    /\ ChainOpen
    /\ IF Receiver = "self" THEN \E a \in WhereArgs : legacy_where(a)
       ELSE AttributeError("where")
    /\ UNCHANGED <<dvars, xvars>>
ChainOrderBy ==
    /\ ChainOpen
    /\ IF Receiver = "self" THEN legacy_order_by(Atom("age"), Atom("-1"))
       ELSE AttributeError("order_by")
    /\ UNCHANGED <<dvars, xvars>>
ChainLimit ==
    /\ ChainOpen
    /\ IF Receiver = "self" THEN legacy_limit(Atom("10"))
       ELSE AttributeError("limit")
    /\ UNCHANGED <<dvars, xvars>>
ChainGet ==
    /\ ChainOpen
    /\ IF Receiver = "self" THEN \E d \in DriverOutcomes : legacy_get(d)
       ELSE AttributeError("get")
    /\ UNCHANGED <<dvars, xvars>>
\* a new statement on the handle after the chain has ended
NewChain ==
    /\ ~ChainOpen
    /\ Len(calls) < MaxCalls
    /\ \/ \E a \in WhereArgs : legacy_where(a)
       \/ legacy_order_by(Atom("age"), Atom("-1"))
       \/ legacy_limit(Atom("10"))
    /\ UNCHANGED <<dvars, xvars>>

NextChainLegacy ==
    \/ ChainWhere
    \/ ChainOrderBy
    \/ ChainLimit
    \/ ChainGet
    \/ NewChain

SpecChainLegacy == Init /\ [][NextChainLegacy]_vars

\* one caller builds, then one thread calls get() and another where(e)
Setup == RaceSetup /\ UNCHANGED dvars
WhereLoad == \E a \in WhereArgs : where_load(a) /\ UNCHANGED dvars
WhereAppend == where_append /\ UNCHANGED dvars
GetCall == \E d \in DriverOutcomes : aggregate_call(d) /\ UNCHANGED dvars
GetReset == aggregate_reset /\ UNCHANGED dvars

NextRace ==
    \/ Setup
    \/ WhereLoad
    \/ WhereAppend
    \/ GetCall
    \/ GetReset

SpecRace == Init /\ [][NextRace]_vars
\* several subscriptions of one collection, each with a callback of one or of
\* three parameters, each with its own stream and thread
RegisterAny ==
    \E s \in AllSubs, f \in {"f1", "f3"} :
        OnSnapshotWatch(s, "collection", f) /\ UNCHANGED <<qvars, xvars>>
ReturnAny == \E s \in AllSubs : OnSnapshotReturn(s) /\ UNCHANGED <<qvars, xvars>>
YieldAny == \E s \in AllSubs : Pull(s, EvInsert) /\ UNCHANGED <<qvars, xvars>>
MatchAny == \E s \in AllSubs : Dispatch(s) /\ UNCHANGED <<qvars, xvars>>
ReturnsAny == \E s \in AllSubs : CallbackReturn(s) /\ UNCHANGED <<qvars, xvars>>

NextSubscriptions ==
    \/ RegisterAny
    \/ ReturnAny
    \/ YieldAny
    \/ MatchAny
    \/ ReturnsAny

SpecSubscriptions == Init /\ [][NextSubscriptions]_vars

(***************************************************************************)
(* Properties of the collection handle (SpecPipeline).                     *)
(***************************************************************************)
BuildOps == {"where", "order_by", "limit"}
ExecOps == {"get", "aggregate", "to_dict"}
LastCall == calls[Len(calls)]

\* the position of the last execution call of a log, 0 if there is none
LastExec(log) ==
    LET at == {i \in 1..Len(log) : log[i].op \in ExecOps}
    IN  IF at = {} THEN 0 ELSE CHOOSE i \in at : \A j \in at : j <= i

\* the stages appended by the calls after position n, in call order
RECURSIVE StagesAfter(_, _)
StagesAfter(log, n) ==
    IF n >= Len(log) THEN <<>>
    ELSE (IF log[n + 1].op \in BuildOps THEN log[n + 1].arg ELSE <<>>)
         \o StagesAfter(log, n + 1)

\* C1: when a callback of neither 1 nor 3 parameters makes the loop raise the
\* invalid-callback error, no event has been pulled from the stream.
C1_ErrorBeforeAnyEvent ==
    \A s \in AllSubs :
        (tpc[s] = "dead" /\ terr[s] = "invalid_callback")
            => Len(yielded[s]) = 0

\* C2: for a callback of neither 1 nor 3 parameters the call of on_snapshot
\* does not return normally: the error reaches the caller.
C2_ErrorReachesCaller ==
    \A s \in AllSubs :
        (cb[s] \in Callbacks /\ co_argcount(cb[s]) \notin {1, 3})
            => cpc[s] # "returned"

\* C3: after a get() or aggregate() that completed the pipeline is empty, and
\* an execution call that follows it directly passes the empty pipeline to
\* the driver, whatever the first one passed.
C3_SecondExecutionIsEmpty ==
    /\ (Len(calls) > 0 /\ LastCall.op \in {"get", "aggregate"}
            /\ LastCall.out = "ok")
          => pipeline = <<>>
    /\ \A i \in 1..(Len(calls) - 1) :
          (calls[i].op \in {"get", "aggregate"} /\ calls[i].out = "ok"
              /\ calls[i + 1].op \in ExecOps)
            => calls[i + 1].arg = <<>>

\* a get() that executed two stages, followed directly by another execution
C3_Witness ==
    /\ Len(calls) = 4
    /\ calls[3].op = "get" /\ calls[3].out = "ok" /\ Len(calls[3].arg) = 2
    /\ calls[4].op \in ExecOps

\* C4: after every execution call, whether the driver returned or raised, the
\* pipeline is empty.
C4_ExecutionAlwaysResets ==
    (Len(calls) > 0 /\ LastCall.op \in ExecOps) => pipeline = <<>>

\* C5: the pipeline is always the sequence of the stages appended since the
\* last execution call, in call order.
C5_PipelineIsStagesSinceExecution ==
    pipeline = StagesAfter(calls, LastExec(calls))

(***************************************************************************)
(* Properties of the dispatch loop (SpecDispatch, SpecSubscriptions).      *)
(***************************************************************************)
Arity(s) == IF cb[s] \in Callbacks THEN co_argcount(cb[s]) ELSE -1
\* event i of the stream is held by the loop, which has not dispatched it yet
Held(s, i) == i = Len(yielded[s]) /\ tpc[s] = "match"

\* C6: a 1-parameter callback is invoked once for each event the stream has
\* yielded, in stream order, with the event itself.
C6_RawEventsOnceInOrder ==
    \A s \in AllSubs :
        Arity(s) = 1 =>
            /\ Len(delivered[s]) =
                   Len(yielded[s]) - (IF tpc[s] = "match" THEN 1 ELSE 0)
            /\ \A i \in 1..Len(delivered[s]) :
                   delivered[s][i].args = <<yielded[s][i]>>

\* two different events delivered, the loop ended by the end of the stream
C6_Witness ==
    /\ cb[1] = "f1" /\ tpc[1] = "done"
    /\ yielded[1] = <<EvUpdate, EvDrop>>
    /\ Len(delivered[1]) = 2

\* C7: a 3-parameter callback receives, for every event that has documentKey,
\* operationType and ns, three arguments: a 1-element sequence holding the
\* event's fullDocument or else the empty mapping; a mapping of exactly
\* documentKey, operationType and ns; the event's clusterTime or else the
\* empty mapping.
C7_NormalizedTriple ==
    \A s \in AllSubs :
        Arity(s) = 3 =>
            \A i \in 1..Len(yielded[s]) :
                LET e == yielded[s][i] IN
                (MetaFields \subseteq DOMAIN e /\ ~Held(s, i)) =>
                    /\ i <= Len(delivered[s])
                    /\ LET a == delivered[s][i].args IN
                       /\ Len(a) = 3
                       /\ Len(a[1]) = 1
                       /\ a[1][1] = (IF "fullDocument" \in DOMAIN e
                                     THEN e.fullDocument ELSE EmptyMap)
                       /\ DOMAIN a[2] =
                              {"documentKey", "operationType", "ns"}
                       /\ \A f \in DOMAIN a[2] : a[2][f] = e[f]
                       /\ a[3] = (IF "clusterTime" \in DOMAIN e
                                  THEN e.clusterTime ELSE EmptyMap)

\* an update, which has an updateDescription and no fullDocument, delivered
C7_Witness ==
    /\ cb[1] = "f3"
    /\ \E i \in 1..Len(delivered[1]) : yielded[1][i] = EvUpdate

\* C8: whichever fields an event lacks, the 3-parameter callback is invoked
\* for it and the loop is not aborted.
C8_TolerantOfAnyMissingField ==
    \A s \in AllSubs :
        Arity(s) = 3 =>
            /\ terr[s] # "KeyError"
            /\ \A i \in 1..Len(yielded[s]) :
                   Held(s, i) \/ i <= Len(delivered[s])

\* C8, amended: for an event that has documentKey, operationType and ns the
\* 3-parameter callback is invoked whichever of fullDocument and clusterTime
\* the event lacks; an event that lacks one of the three ends the loop with
\* KeyError, the callback not invoked for it.
C8_TolerantOfMissingDocumentAndTime ==
    \A s \in AllSubs :
        Arity(s) = 3 =>
            \A i \in 1..Len(yielded[s]) :
                LET e == yielded[s][i] IN
                Held(s, i) \/
                IF {"documentKey", "operationType", "ns"} \subseteq DOMAIN e
                THEN i <= Len(delivered[s])
                ELSE /\ i = Len(yielded[s])
                     /\ Len(delivered[s]) = i - 1
                     /\ tpc[s] = "dead" /\ terr[s] = "KeyError"

\* an event with neither fullDocument nor clusterTime delivered, then a drop
\* event, which has no documentKey, ending the loop
C8_Witness ==
    /\ cb[1] = "f3"
    /\ yielded[1] = <<EvDelete, EvDrop>>
    /\ Len(delivered[1]) = 1
    /\ terr[1] = "KeyError"

\* C9: at most one invocation of a given callback made by dispatch loops is in
\* progress at any time.
C9_OneInvocationPerCallback ==
    \A f \in Callbacks :
        Cardinality({s \in AllSubs : cb[s] = f /\ running[s] # {}}) <= 1

\* C9, amended: at most one invocation made by the dispatch loop of one
\* subscription is in progress at any time, and it is the one for the last
\* event the stream yielded: while the loop holds an event it has not
\* dispatched yet, no invocation for an earlier event is in progress.
C9_OneInvocationPerSubscription ==
    \A s \in AllSubs :
        /\ Cardinality(running[s]) <= 1
        /\ running[s] \subseteq {Len(yielded[s])}
        /\ tpc[s] = "match" => running[s] = {}

\* the invocation for the second event of a stream in progress
C9_Witness ==
    /\ Len(delivered[1]) = 2
    /\ running[1] = {2}

\* C10: every invocation of the callback is made by the thread, never by the
\* caller of on_snapshot, and a call of on_snapshot with a callback returns,
\* also when the stream never yields an event.
C10_ReturnsWithoutWaiting ==
    /\ [](\A s \in AllSubs :
            /\ \A i \in 1..Len(delivered[s]) : delivered[s][i].by = "thread"
            /\ tpc[s] # "unstarted" => ctx[s] = "thread")
    /\ \A s \in AllSubs : (cpc[s] = "watched") ~> (cpc[s] = "returned")

\* on_snapshot has returned and the stream, still open, has yielded nothing
C10_Witness ==
    /\ cpc[1] = "returned" /\ cret[1] = "None"
    /\ cb[1] \in Callbacks
    /\ sstat[1] = "open" /\ yielded[1] = <<>>
    /\ tpc[1] = "next"


\* the stream of s is over: exhausted or closed, or failing
Ended(s) == sstat[s] \in {"closed", "error"}
\* the thread of s is over
Terminated(s) == tpc[s] \in {"done", "dead"}

\* C11: once the stream is over the thread of the subscription terminates;
\* a stream that is over stays over and yields nothing more (no stream is
\* opened again); a thread that has terminated stays so and invokes the
\* callback no more.
C11_StreamEndIsTerminal ==
    /\ \A s \in AllSubs :
           (tpc[s] # "unstarted" /\ Ended(s)) ~> Terminated(s)
    /\ [][\A s \in AllSubs :
            /\ Ended(s) => (sstat'[s] = sstat[s] /\ yielded'[s] = yielded[s])
            /\ Terminated(s) =>
                  (tpc'[s] = tpc[s] /\ delivered'[s] = delivered[s])]_vars

\* the loop ended by the failure of a stream that had yielded an event
C11_Witness ==
    /\ sstat[1] = "error"
    /\ tpc[1] = "dead" /\ terr[1] = "stream_error"
    /\ Len(delivered[1]) = 1

\* C19: when an invocation of the callback raises, the loop of the
\* subscription ends there: the step leaves the stream and the caller of
\* on_snapshot as they are, and from then on the stream yields nothing to the
\* loop and the callback is not invoked.
C19_CallbackRaiseEndsLoop ==
    [][\A s \in AllSubs :
         /\ (terr[s] # "callback_raised" /\ terr'[s] = "callback_raised") =>
               /\ tpc'[s] = "dead"
               /\ sstat'[s] = sstat[s]
               /\ cpc'[s] = cpc[s] /\ cret'[s] = cret[s]
         /\ terr[s] = "callback_raised" =>
               /\ tpc'[s] = "dead"
               /\ yielded'[s] = yielded[s]
               /\ delivered'[s] = delivered[s]
               /\ cpc'[s] = cpc[s] /\ cret'[s] = cret[s]]_vars

\* the callback raised on the first event of a stream that is still open
C19_Witness ==
    /\ terr[1] = "callback_raised" /\ tpc[1] = "dead"
    /\ sstat[1] = "open"
    /\ Len(yielded[1]) = 1 /\ Len(yielded[1]) < MaxEvents
    /\ cpc[1] = "returned" /\ cret[1] = "None"


(***************************************************************************)
(* Properties of the document reference (SpecReference).                   *)
(***************************************************************************)
\* the payload of a write: the replacement, or what $set / $push holds
PayloadOf(w) ==
    IF w.method = "replace_one" THEN w.doc
    ELSE w.doc[CHOOSE op \in DOMAIN w.doc : TRUE]

\* C12: every set, update and push gives the driver exactly one write, whose
\* filter is {_id: docId} of the reference, with upsert, and whose payload
\* has no "_id" entry, whatever the dict given holds.
C12_WritesTargetOwnKey ==
    /\ Len(ref.writes) = ref.ncalls
    /\ \A i \in 1..Len(ref.writes) :
          LET w == ref.writes[i] IN
          /\ DOMAIN w.filter = {"_id"}
          /\ w.filter["_id"] = ref.docId
          /\ w.upsert = TRUE
          /\ "_id" \notin DOMAIN PayloadOf(w)

\* a set and a push whose dicts name another document than the reference's
C12_Witness ==
    /\ ref.docId = "k1"
    /\ Len(ref.writes) = 2
    /\ ref.writes[1].method = "replace_one"
    /\ ref.writes[2].method = "update_one"
    /\ "$push" \in DOMAIN ref.writes[2].doc
    /\ \A i \in 1..2 :
          /\ "_id" \in DOMAIN ref.writes[i].given
          /\ ref.writes[i].given["_id"] = "k9"


(***************************************************************************)
(* Properties of the expression compiler (SpecParse).                      *)
(***************************************************************************)
\* the parts of a call of parse
Called == parsed # <<>>
Input == parsed[1]
Output == parsed[2]
\* the shape [f, op, v]
IsComparison(x) ==
    /\ IsSequence(x)
    /\ Len(Items(x)) = 3
    /\ IsAtom(Items(x)[2])
    /\ Items(x)[2].atom \in OpTokens
\* the shape [c, e1, .., en]
IsCombination(x) ==
    /\ IsSequence(x)
    /\ Len(Items(x)) >= 1
    /\ IsAtom(Items(x)[1])
    /\ Items(x)[1].atom \in {"and", "or", "nor"}
\* the shape ["not", e]
IsNegation(x) ==
    /\ IsSequence(x)
    /\ Len(Items(x)) = 2
    /\ Items(x)[1] = Atom("not")
\* the tags the operators are to be wrapped in
Tags ==
    [tok \in OpTokens \ {"=="} |->
        CASE tok = "!=" -> "$ne"
          [] tok = "<" -> "$lt"
          [] tok = ">" -> "$gt"
          [] tok = "<=" -> "$lte"
          [] tok = ">=" -> "$gte"
          [] tok = "in" -> "$in"
          [] tok = "not-in" -> "$nin"]
\* the mapping a comparison on field f with operator op and compiled value
\* pv is compiled to
Compiled(f, op, pv) ==
    IF IsRaised(pv) THEN pv
    ELSE IF op = "==" THEN Dict(f, pv)
    ELSE Dict(f, Dict(Atom(Tags[op]), pv))

\* C13: a three-element list [f, op, v] with a field name f and an operator
\* token op is compiled to the one-key mapping {f: parse(v)} when op is "=="
\* and to {f: {tag: parse(v)}} with the tag of op otherwise.
C13_ComparisonCompiles ==
    (Called /\ IsComparison(Input) /\ Items(Input)[1] \in FieldNames) =>
        LET xs == Items(Input)
        IN  Output = Compiled(xs[1], xs[2].atom, parse(xs[3]))
C13_Witness ==
    /\ Called
    /\ Input = List(<<Atom("and"), Atom("<="), List(<<Atom("not"), Atom("draft")>>)>>)
    /\ Output = Dict(Atom("and"),
                     Dict(Atom("$lte"), Dict(Atom("$not"), Atom("draft"))))


\* the mapping the n-ary case compiles [c, e1, .., en] to: the operands
\* compiled in order under the key "$" + c, or the error of the first operand
\* whose compilation raises
Nary(x) ==
    LET xs == Items(x)
        ps == [i \in 1..(Len(xs) - 1) |-> parse(xs[i + 1])]
        bad == {i \in DOMAIN ps : IsRaised(ps[i])}
        tag == CASE xs[1].atom = "and" -> "$and"
                 [] xs[1].atom = "or" -> "$or"
                 [] xs[1].atom = "nor" -> "$nor"
    IN  IF bad # {} THEN ps[CHOOSE i \in bad : \A j \in bad : i <= j]
        ELSE Dict(Atom(tag), List(ps))

\* C14 as stated: every list that starts with a combinator is compiled as
\* the n-ary case, whatever its length and its operands.
C14_CombinatorAlwaysNary ==
    (Called /\ IsCombination(Input)) => Output = Nary(Input)
\* C14: a list that starts with a combinator is compiled as the n-ary case
\* unless it has three elements with an operator token in the middle; such a
\* list is compiled as a comparison on the field named like the combinator.
C14_CombinatorNaryUnlessComparison ==
    (Called /\ IsCombination(Input)) =>
        LET xs == Items(Input)
        IN  IF IsComparison(Input)
            THEN Output = Compiled(xs[1], xs[2].atom, parse(xs[3]))
            ELSE Output = Nary(Input)
C14_Witness ==
    /\ Called
    /\ Input = List(<<Atom("and"), ExprAge, List(<<Atom("not"), ExprName>>)>>)
    /\ Output = Dict(Atom("$and"),
                     List(<<parse(ExprAge), Dict(Atom("$not"), parse(ExprName))>>))


\* a literal: a string or number, or a sequence of literals
RECURSIVE IsLiteral(_)
IsLiteral(v) ==
    \/ IsAtom(v)
    \/ IsSequence(v) /\ \A i \in 1..Len(Items(v)) : IsLiteral(Items(v)[i])
\* a value that has the shape of a node of the grammar
IsNodeShaped(v) == IsNegation(v) \/ IsComparison(v) \/ IsCombination(v)
\* the mapping of a comparison whose value v is taken as it is
Unchanged(f, op, v) ==
    IF op = "==" THEN Dict(f, v) ELSE Dict(f, Dict(Atom(Tags[op]), v))
\* a call of parse with a comparison on a field name and a literal value
LiteralComparison ==
    /\ Called
    /\ IsComparison(Input)
    /\ Items(Input)[1] \in FieldNames
    /\ IsLiteral(Items(Input)[3])

\* C15 as stated: the literal value of a comparison appears unchanged in the
\* resulting filter document, whatever its length and content.
C15_ValuesPassThrough ==
    LiteralComparison =>
        LET xs == Items(Input)
        IN  Output = Unchanged(xs[1], xs[2].atom, xs[3])
\* C15: the literal value of a comparison appears unchanged in the resulting
\* filter document exactly when it does not have the shape of a node; a value
\* with the shape of a negation, a comparison or a combination is replaced by
\* its compilation.
C15_ValuesPassThroughUnlessNodeShaped ==
    LiteralComparison =>
        LET xs == Items(Input)
        IN  IF IsNodeShaped(xs[3])
            THEN /\ Output # Unchanged(xs[1], xs[2].atom, xs[3])
                 /\ Output = Compiled(xs[1], xs[2].atom, parse(xs[3]))
            ELSE Output = Unchanged(xs[1], xs[2].atom, xs[3])
C15_Witness ==
    /\ LiteralComparison
    /\ Items(Input)[3] = List(<<Atom("a"), Atom("b"), Atom("c"), Atom("d")>>)
    /\ Items(Input)[2] = Atom("not-in")
    /\ Output.val = Dict(Atom("$nin"), Items(Input)[3])


\* the shapes named as unrecognized: a bare literal, a mapping, an empty
\* list, a one-element list, a three-element list whose middle element is no
\* operator and whose first element is no combinator, a four-element list
\* that does not start with a combinator
NamedUnrecognized(x) ==
    \/ IsAtom(x)
    \/ IsDict(x)
    \/ /\ IsSequence(x)
       /\ \/ Len(Items(x)) \in {0, 1}
          \/ Len(Items(x)) = 3 /\ ~IsComparison(x) /\ ~IsCombination(x)
          \/ Len(Items(x)) = 4 /\ ~IsCombination(x)
\* a comparison with an unhashable field somewhere in args, at a place parse
\* compiles
RECURSIVE HasUnhashableField(_)
HasUnhashableField(x) ==
    IF IsNegation(x) THEN HasUnhashableField(Items(x)[2])
    ELSE IF IsComparison(x)
        THEN ~Hashable(Items(x)[1]) \/ HasUnhashableField(Items(x)[3])
    ELSE IF IsCombination(x)
        THEN \E i \in 2..Len(Items(x)) : HasUnhashableField(Items(x)[i])
    ELSE FALSE

C17_BuildersReturnHandle ==
    \A i \in DOMAIN calls :
        /\ (calls[i].op \in BuildOps /\ calls[i].out = "ok") =>
               calls[i].ret = "self"
        /\ calls[i].out # "AttributeError"


(***************************************************************************)
(* Properties of concurrent calls on one handle (SpecRace).                *)
(***************************************************************************)
\* the $match stage of the thread in where
RaceStage == MatchStage(WhereExpr(race.arg))
\* stage st is one of the stages of seq
InStages(st, seq) == \E i \in 1..Len(seq) : seq[i] = st
\* step a was taken, and step b after it
Before(a, b) ==
    \E i, j \in 1..Len(race.trace) :
        i < j /\ race.trace[i] = a /\ race.trace[j] = b
\* both threads are through, where having appended its stage
BothThrough == race.wpc = "done" /\ race.gpc \in {"done", "raised"}
\* the appended stage was not read by the driver and is not in the pipeline
StageLost ==
    /\ BothThrough
    /\ ~InStages(RaceStage, race.passed)
    /\ ~InStages(RaceStage, pipeline)

\* C18: with get() and where(e) running concurrently on one handle, the
\* stage where appended is lost exactly when where loaded the list before
\* the reset and appended to it after the driver call; then it is neither
\* among the stages given to the driver nor in the pipeline afterwards.
\* Otherwise it is in exactly one of the two.
C18_StageLostInTheWindow ==
    BothThrough =>
        /\ StageLost <=> (Before("call", "append") /\ Before("load", "reset"))
        /\ ~(InStages(RaceStage, race.passed) /\ InStages(RaceStage, pipeline))
C18_Witness ==
    /\ StageLost
    /\ Before("call", "append")
    /\ Before("append", "reset")

====
